---- MODULE Spec2Model ----
(***************************************************************************)
(* Scan-state reconciliation and caching engine of actions-guard-hub:      *)
(* GitHubActionsScanner (scanner_core.py) and the parsing / version        *)
(* resolution of GitHubClient (github_client.py).                          *)
(*                                                                         *)
(* Python strings are sequences of one-character strings, so that prefix   *)
(* tests, splitting and character replacement are computed, not assumed.   *)
(* Python's None is the distinguished value None below.                    *)
(***************************************************************************)
EXTENDS Integers, Sequences, FiniteSets, TLC

(***************************************************************************)
(* Bounds of the model.                                                    *)
(***************************************************************************)
MaxRuns == 2
MaxMoves == 1

(***************************************************************************)
(* Values.                                                                 *)
(***************************************************************************)
None == <<"None">>

NA == <<"N", "/", "A">>

LATEST == <<"l", "a", "t", "e", "s", "t">>
MAIN == <<"m", "a", "i", "n">>
MASTER == <<"m", "a", "s", "t", "e", "r">>
PROD == <<"p", "r", "o", "d">>
PRODUCTION == <<"p", "r", "o", "d", "u", "c", "t", "i", "o", "n">>

\* github_client.py:382, the reserved aliases
Aliases == {LATEST, MAIN, MASTER, PROD, PRODUCTION}

HTTP == <<"h", "t", "t", "p">>
GITHUB_COM == <<"g", "i", "t", "h", "u", "b", ".", "c", "o", "m", "/">>

\* Tags of the remote repository, a branch that is no tag, and commit SHAs.
\* ShaA and ShaB share the prefix "ab".
V1 == <<"v", "1">>
V2 == <<"v", "2">>
DEV == <<"d", "e", "v">>
ShaA == <<"a", "b", "1">>
ShaB == <<"a", "b", "2">>
Tags == {V1, V2}
Shas == {ShaA, ShaB}

\* published_at values of the code host: ISO dates (the digit is the point in
\* time), the sentinel "N/A" of a tag without a release, and null
Date1 == <<"1">>
Date2 == <<"2">>
Dates == {NA, None, Date1, Date2}

\* A collaborator call that returned None
NoResponse == [ok |-> FALSE]

(***************************************************************************)
(* String operations of Python, on sequences of characters.               *)
(***************************************************************************)
\* str.startswith
StartsWith(s, p) == Len(p) <= Len(s) /\ SubSeq(s, 1, Len(p)) = p

\* str.find: the first index at which sub occurs in s, 0 when it does not
Find(s, sub) ==
    LET hits == {i \in 1..(Len(s) - Len(sub) + 1) : SubSeq(s, i, i + Len(sub) - 1) = sub}
    IN IF hits = {} THEN 0 ELSE CHOOSE i \in hits : \A j \in hits : i <= j

\* number of occurrences of the character c
Count(s, c) == Cardinality({i \in 1..Len(s) : s[i] = c})

\* str.rstrip(c)
RECURSIVE RStrip(_, _)
RStrip(s, c) ==
    IF Len(s) > 0 /\ s[Len(s)] = c THEN RStrip(SubSeq(s, 1, Len(s) - 1), c) ELSE s

\* the text after the first occurrence of sub (sub occurs in s)
After(s, sub) == SubSeq(s, Find(s, sub) + Len(sub), Len(s))

\* the text before the first occurrence of sub (all of s when sub is absent)
Before(s, sub) == IF Find(s, sub) = 0 THEN s ELSE SubSeq(s, 1, Find(s, sub) - 1)

(***************************************************************************)
(* GitHubClient.parse_action_reference: (owner, repo, version), or         *)
(* (None, None, version) for an invalid reference.                         *)
(***************************************************************************)
parse_action_reference_lenient(action_ref) ==
    LET isUrl == StartsWith(action_ref, HTTP)
        urlRaises == isUrl /\ Find(action_ref, GITHUB_COM) = 0
        owner_repo ==
            IF isUrl
            THEN RStrip(Before(After(action_ref, GITHUB_COM), GITHUB_COM), "/")
            ELSE Before(action_ref, <<"@">>)
        version ==
            IF isUrl \/ Find(action_ref, <<"@">>) = 0
            THEN LATEST
            ELSE After(action_ref, <<"@">>)
    IN IF urlRaises THEN <<None, None, LATEST>>
       ELSE IF Count(owner_repo, "/") = 0 THEN <<None, None, version>>
       ELSE <<Before(owner_repo, <<"/">>), After(owner_repo, <<"/">>), version>>

parse_action_reference(action_ref) ==
    LET isUrl == StartsWith(action_ref, HTTP)
        \* split("github.com/")[1] raises IndexError when the host is absent
        urlRaises == isUrl /\ Find(action_ref, GITHUB_COM) = 0
        owner_repo ==
            IF isUrl
            THEN RStrip(Before(After(action_ref, GITHUB_COM), GITHUB_COM), "/")
            ELSE Before(action_ref, <<"@">>)
        version ==
            IF isUrl \/ Find(action_ref, <<"@">>) = 0
            THEN LATEST
            ELSE After(action_ref, <<"@">>)
    IN IF urlRaises THEN <<None, None, LATEST>>
       ELSE IF Count(owner_repo, "/") # 1 THEN <<None, None, version>>
       ELSE <<Before(owner_repo, <<"/">>), After(owner_repo, <<"/">>), version>>

\* Python truthiness of an optional string: None and "" are false
Truthy(s) == s # None /\ s # <<>>

(***************************************************************************)
(* Release records and the ordered mapping label -> release record.        *)
(* A Python dict keeps insertion order and its loops run in that order, so *)
(* the mapping is a sequence of records that carry their label in name.    *)
(***************************************************************************)
Range(f) == {f[i] : i \in DOMAIN f}

\* list(set(...)): every order of the elements is a possible result
ListsOf(S) == {q \in [1..Cardinality(S) -> S] : Range(q) = S}

Labels(rels) == {rels[i].name : i \in DOMAIN rels}

HasLabel(rels, n) == n \in Labels(rels)

IndexOf(rels, n) == CHOOSE i \in DOMAIN rels : rels[i].name = n

Release(rels, n) == rels[IndexOf(rels, n)]

\* releases[name] = rel: in place for a known label, appended for a new one
Put(rels, rel) ==
    IF HasLabel(rels, rel.name)
    THEN [rels EXCEPT ![IndexOf(rels, rel.name)] = rel]
    ELSE Append(rels, rel)

TagEntryNoSha(tag, commit_sha, published) ==
    [name |-> tag, published_date |-> published, scanned |-> FALSE,
     latest |-> commit_sha, sha |-> <<>>, safe |-> TRUE,
     scan_report |-> None]

\* github_client.py:216-223, the entry get_releases_info builds for a tag
TagEntry(tag, commit_sha, published) ==
    [name |-> tag, published_date |-> published, scanned |-> FALSE,
     latest |-> commit_sha, sha |-> <<commit_sha>>, safe |-> TRUE,
     scan_report |-> None]

(***************************************************************************)
(* GitHubActionsScanner._merge_repository_metadata                         *)
(***************************************************************************)
\* lines 308-333: what is stored for a label that is already in the record.
\* The set of results: list(set) fixes no order of the merged SHA list.
MergeKnownDrop(existing_release, release_data) ==
    {[release_data EXCEPT !.scanned = existing_release.scanned,
                          !.scan_report = existing_release.scan_report,
                          !.safe = existing_release.safe]}

MergeKnownIncoming(existing_release, release_data) == {release_data}

MergeKnown(existing_release, release_data) ==
    LET scanState ==
            IF existing_release.latest # release_data.latest
            THEN [release_data EXCEPT !.scanned = FALSE,
                                      !.scan_report = None,
                                      !.safe = TRUE]
            ELSE [release_data EXCEPT !.scanned = existing_release.scanned,
                                      !.scan_report = existing_release.scan_report,
                                      !.safe = existing_release.safe]
    IN IF Len(existing_release.sha) > 1
       THEN {[scanState EXCEPT !.sha = merged] :
                merged \in ListsOf(Range(existing_release.sha) \cup Range(release_data.sha))}
       ELSE {scanState}

RECURSIVE MergeReleasesAppend(_, _, _)
MergeReleasesAppend(existing_releases, new_releases, i) ==
    IF i > Len(new_releases) THEN {existing_releases}
    ELSE MergeReleasesAppend(Append(existing_releases, new_releases[i]), new_releases, i + 1)

\* lines 307-339: the loop over new_releases, from its i-th entry on
RECURSIVE MergeReleases(_, _, _)
MergeReleases(existing_releases, new_releases, i) ==
    IF i > Len(new_releases) THEN {existing_releases}
    ELSE LET release_data == new_releases[i]
             stored ==
                 IF HasLabel(existing_releases, release_data.name)
                 THEN MergeKnown(Release(existing_releases, release_data.name), release_data)
                 ELSE {release_data}
         IN UNION {MergeReleases(Put(existing_releases, rd), new_releases, i + 1) : rd \in stored}

\* number of known labels whose latest differs (releases_updated, line 317)
ReleasesUpdated(existing_releases, new_releases) ==
    Cardinality({i \in DOMAIN new_releases :
        /\ HasLabel(existing_releases, new_releases[i].name)
        /\ Release(existing_releases, new_releases[i].name).latest # new_releases[i].latest})

MergeRecordReplace(existing, new_stats) ==
    {[existing EXCEPT !.repository = new_stats.repository,
                      !.last_updated = new_stats.last_updated,
                      !.releases = new_stats.releases]}

\* lines 278-341: the possible records after the merge
MergeRecord(existing, new_stats) ==
    LET header == [existing EXCEPT !.repository = new_stats.repository,
                                   !.last_updated = new_stats.last_updated]
    IN IF new_stats.releases # <<>>
       THEN {[header EXCEPT !.releases = merged] :
                merged \in MergeReleases(existing.releases, new_stats.releases, 1)}
       ELSE {header}

(***************************************************************************)
(* GitHubClient.resolve_version_and_sha                                    *)
(***************************************************************************)
\* The (release, sha) pairs in the order of the nested loops
\* "for release in releases: for sha in release.sha"
RECURSIVE ShaEntries(_, _)
ShaEntries(rels, i) ==
    IF i > Len(rels) THEN <<>>
    ELSE [j \in DOMAIN rels[i].sha |-> [name |-> rels[i].name, sha |-> rels[i].sha[j]]]
         \o ShaEntries(rels, i + 1)

\* "version == sha or sha.startswith(version)"; a None in the list makes
\* sha.startswith raise AttributeError
ShaTestRaises(version, sha) == sha = None

ShaMatches(version, sha) == sha # None /\ (version = sha \/ StartsWith(sha, version))

\* index of the first entry at which the loop stops (match or exception), or 0
FirstStop(entries, version) ==
    LET stops == {k \in DOMAIN entries :
                    ShaTestRaises(version, entries[k].sha) \/ ShaMatches(version, entries[k].sha)}
    IN IF stops = {} THEN 0 ELSE CHOOSE k \in stops : \A m \in stops : k <= m

\* datetime.fromisoformat(published_date): the point in time, 0 when it raises
DigitChars == <<"1", "2", "3", "4", "5", "6", "7", "8", "9">>

fromisoformat(published_date) ==
    IF published_date # None /\ Len(published_date) = 1
       /\ \E n \in DOMAIN DigitChars : DigitChars[n] = published_date[1]
    THEN CHOOSE n \in DOMAIN DigitChars : DigitChars[n] = published_date[1]
    ELSE 0

RECURSIVE LatestByDateFirst(_, _, _, _)
LatestByDateFirst(rels, i, latest_release, latest_date) ==
    IF i > Len(rels) THEN latest_release
    ELSE LET published_date == rels[i].published_date
             date_obj == fromisoformat(published_date)
         IN IF published_date # NA /\ date_obj # 0 /\ latest_release = None
            THEN LatestByDateFirst(rels, i + 1, rels[i].name, date_obj)
            ELSE LatestByDateFirst(rels, i + 1, latest_release, latest_date)

\* lines 407-419: the loop that keeps the first release with the greatest date;
\* state is (latest_release, latest_date), None/0 while nothing was found
RECURSIVE LatestByDate(_, _, _, _)
LatestByDate(rels, i, latest_release, latest_date) ==
    IF i > Len(rels) THEN latest_release
    ELSE LET published_date == rels[i].published_date
             date_obj == fromisoformat(published_date)
         IN IF published_date # NA /\ date_obj # 0
               /\ (latest_release = None \/ date_obj > latest_date)
            THEN LatestByDate(rels, i + 1, rels[i].name, date_obj)
            ELSE LatestByDate(rels, i + 1, latest_release, latest_date)

ResolveConcreteShaFirst(metadata, owner_repo, version) ==
    IF owner_repo \in DOMAIN metadata
    THEN LET releases == metadata[owner_repo].releases
             entries == ShaEntries(releases, 1)
             k == FirstStop(entries, version)
         IN IF k # 0 /\ ~ShaTestRaises(version, entries[k].sha)
            THEN [version |-> entries[k].name, sha |-> entries[k].sha, raised |-> FALSE]
            ELSE IF HasLabel(releases, version)
            THEN [version |-> version, sha |-> Release(releases, version).latest, raised |-> FALSE]
            ELSE [version |-> version, sha |-> None, raised |-> k # 0]
    ELSE [version |-> version, sha |-> None, raised |-> FALSE]

ResolveConcreteUnguarded(metadata, owner_repo, version) ==
    IF owner_repo \in DOMAIN metadata
    THEN LET releases == metadata[owner_repo].releases
             entries == ShaEntries(releases, 1)
             k == FirstStop(entries, version)
         IN IF HasLabel(releases, version)
            THEN [version |-> version, sha |-> Release(releases, version).latest, raised |-> FALSE]
            ELSE IF k = 0
            THEN [version |-> version, sha |-> None, raised |-> FALSE]
            ELSE IF ShaTestRaises(version, entries[k].sha)
            THEN [version |-> None, sha |-> None, raised |-> TRUE]
            ELSE [version |-> entries[k].name, sha |-> entries[k].sha, raised |-> FALSE]
    ELSE [version |-> version, sha |-> None, raised |-> FALSE]

\* lines 381-397: a version that is no alias
ResolveConcrete(metadata, owner_repo, version) ==
    IF owner_repo \in DOMAIN metadata
    THEN LET releases == metadata[owner_repo].releases
             entries == ShaEntries(releases, 1)
             k == FirstStop(entries, version)
         IN IF HasLabel(releases, version)
            THEN [version |-> version, sha |-> Release(releases, version).latest, raised |-> FALSE]
            ELSE IF k = 0
            THEN [version |-> version, sha |-> None, raised |-> FALSE]
            ELSE IF ShaTestRaises(version, entries[k].sha)
            \* line 449-451: the exception handler returns (version, None)
            THEN [version |-> version, sha |-> None, raised |-> TRUE]
            ELSE [version |-> entries[k].name, sha |-> entries[k].sha, raised |-> FALSE]
    ELSE [version |-> version, sha |-> None, raised |-> FALSE]

ResolveAliasNoApi(metadata, owner_repo, version, api_release, repo_info) ==
    LET releases == IF owner_repo \in DOMAIN metadata
                    THEN metadata[owner_repo].releases ELSE <<>>
        latest_release == LatestByDate(releases, 1, None, 0)
    IN IF latest_release # None
       THEN [version |-> latest_release, sha |-> Release(releases, latest_release).latest,
             raised |-> FALSE]
       ELSE IF repo_info.ok
       THEN [version |-> repo_info.default_branch, sha |-> None, raised |-> FALSE]
       ELSE [version |-> MAIN, sha |-> None, raised |-> FALSE]

\* lines 399-447: an alias. api_release is what get_latest_release returns and
\* repo_info what get_repository_info returns (NoResponse when the call fails).
ResolveAlias(metadata, owner_repo, version, api_release, repo_info) ==
    LET releases == IF owner_repo \in DOMAIN metadata
                    THEN metadata[owner_repo].releases ELSE <<>>
        latest_release == LatestByDate(releases, 1, None, 0)
    IN IF latest_release # None
       THEN [version |-> latest_release, sha |-> Release(releases, latest_release).latest,
             raised |-> FALSE]
       ELSE IF api_release.ok
       THEN [version |-> api_release.tag_name, sha |-> api_release.target_commitish,
             raised |-> FALSE]
       ELSE IF repo_info.ok
       THEN [version |-> repo_info.default_branch, sha |-> None, raised |-> FALSE]
       ELSE [version |-> MAIN, sha |-> None, raised |-> FALSE]

resolve_version_and_sha(metadata, owner_repo, version, api_release, repo_info) ==
    IF version \notin Aliases
    THEN ResolveConcrete(metadata, owner_repo, version)
    ELSE ResolveAlias(metadata, owner_repo, version, api_release, repo_info)

(***************************************************************************)
(* GitHubActionsScanner._validate_existing_scan and _check_existing_scan.  *)
(* files is the set of scan report paths _resolve_scan_path finds on disk. *)
(***************************************************************************)
\* lines 427-455: the path when the file exists, else None
resolve_scan_path(scan_report_path, files) ==
    IF Truthy(scan_report_path) /\ scan_report_path \in files
    THEN scan_report_path ELSE None

\* lines 410-425: TRUE when the release is scanned and its report exists
ValidScan(release_info, files) ==
    /\ release_info.scanned
    /\ Truthy(release_info.scan_report)
    /\ resolve_scan_path(release_info.scan_report, files) # None

\* lines 417-423: the release after validation; a missing file resets it
AfterValidateKeep(release_info, files) == release_info

AfterValidate(release_info, files) ==
    IF /\ release_info.scanned
       /\ Truthy(release_info.scan_report)
       /\ resolve_scan_path(release_info.scan_report, files) = None
    THEN [release_info EXCEPT !.scanned = FALSE, !.scan_report = None]
    ELSE release_info

\* lines 383-392: the loop over the SHA entries from the k-th on; rels is the
\* live mapping (validation mutates it), result the dict built so far
RECURSIVE CheckShaLoop(_, _, _, _, _, _)
CheckShaLoop(rels, entries, k, version, files, result) ==
    IF k > Len(entries) THEN [result |-> result, releases |-> rels, raised |-> FALSE]
    ELSE IF ShaTestRaises(version, entries[k].sha)
    \* lines 396-398: the exception handler returns the result as it is
    THEN [result |-> result, releases |-> rels, raised |-> TRUE]
    ELSE IF ShaMatches(version, entries[k].sha)
    THEN LET release_info == Release(rels, entries[k].name)
             located == [result EXCEPT !.commit_sha = entries[k].sha,
                                       !.version = entries[k].name]
         IN IF ValidScan(release_info, files)
            THEN [result |-> [located EXCEPT !.skip_scan = TRUE,
                                             !.scan_path = resolve_scan_path(release_info.scan_report, files)],
                  releases |-> rels, raised |-> FALSE]
            ELSE CheckShaLoop(Put(rels, AfterValidate(release_info, files)),
                              entries, k + 1, version, files, located)
    ELSE CheckShaLoop(rels, entries, k + 1, version, files, result)

\* lines 358-398: the result dict, and the releases of the record afterwards
check_existing_scan(metadata, owner_repo, version, files) ==
    LET result == [skip_scan |-> FALSE, scan_path |-> None, commit_sha |-> None,
                   version |-> version]
    IN IF owner_repo \notin DOMAIN metadata
       THEN [result |-> result, releases |-> <<>>, raised |-> FALSE]
       ELSE LET releases == metadata[owner_repo].releases
            IN IF HasLabel(releases, version)
               THEN LET release_info == Release(releases, version)
                        direct == [result EXCEPT !.commit_sha = release_info.latest]
                    IN IF ValidScan(release_info, files)
                       THEN [result |-> [direct EXCEPT !.skip_scan = TRUE,
                                                       !.scan_path = resolve_scan_path(release_info.scan_report, files)],
                             releases |-> releases, raised |-> FALSE]
                       ELSE CheckShaLoop(Put(releases, AfterValidate(release_info, files)),
                                         ShaEntries(releases, 1), 1, version, files, direct)
               ELSE CheckShaLoop(releases, ShaEntries(releases, 1), 1, version, files, result)

(***************************************************************************)
(* GitHubActionsScanner._update_scan_metadata and the scan artifact path.  *)
(***************************************************************************)
\* lines 573 and 608: output_dir / safe_name.json, where safe_name replaces
\* '/' by '-' and '@' and ':' by '_'
SafeChar(c) == IF c = "/" THEN "-" ELSE IF c \in {"@", ":"} THEN "_" ELSE c

ScanPath(action_ref) ==
    [i \in DOMAIN action_ref |-> SafeChar(action_ref[i])] \o <<".", "j", "s", "o", "n">>

NoRepository == [present |-> FALSE]

\* lines 470-477: the result dict of _perform_fresh_scan; commit_sha is never
\* assigned after its initialisation to None
FreshScanResult(success, scan_path, report_path) ==
    [success |-> success, scan_path |-> scan_path, report_path |-> report_path,
     commit_sha |-> None]

\* lines 725-747
update_scan_metadata_noflag(metadata, owner_repo, version, scan_result) == metadata

update_scan_metadata_noreport(metadata, owner_repo, version, scan_result) ==
    LET withRepo ==
            IF owner_repo \in DOMAIN metadata THEN metadata
            ELSE metadata @@ (owner_repo :>
                    [repository |-> NoRepository, last_updated |-> 0, releases |-> <<>>])
        releases == withRepo[owner_repo].releases
        withRelease ==
            IF HasLabel(releases, version) THEN releases
            ELSE Append(releases,
                    [name |-> version, published_date |-> NA, scanned |-> FALSE,
                     latest |-> scan_result.commit_sha,
                     sha |-> <<scan_result.commit_sha>>,
                     safe |-> TRUE, scan_report |-> None])
        updated == [Release(withRelease, version) EXCEPT !.scanned = TRUE]
    IN [withRepo EXCEPT ![owner_repo].releases = Put(withRelease, updated)]

update_scan_metadata(metadata, owner_repo, version, scan_result) ==
    LET withRepo ==
            IF owner_repo \in DOMAIN metadata THEN metadata
            ELSE metadata @@ (owner_repo :>
                    [repository |-> NoRepository, last_updated |-> 0, releases |-> <<>>])
        releases == withRepo[owner_repo].releases
        \* scan_result.get('commit_sha', 'N/A'): the key is present, so the
        \* default is not used
        withRelease ==
            IF HasLabel(releases, version) THEN releases
            ELSE Append(releases,
                    [name |-> version, published_date |-> NA, scanned |-> FALSE,
                     latest |-> scan_result.commit_sha,
                     sha |-> <<scan_result.commit_sha>>,
                     safe |-> TRUE, scan_report |-> None])
        updated == [Release(withRelease, version) EXCEPT
                        !.scanned = TRUE, !.scan_report = scan_result.scan_path]
    IN [withRepo EXCEPT ![owner_repo].releases = Put(withRelease, updated)]

(***************************************************************************)
(* The world outside the scanner.                                          *)
(***************************************************************************)
\* The repository the well-formed references name
OWNER_REPO == <<"o", "/", "r">>

REPORT == <<"report">>

\* The action references handed to scan_action
ActionRefs ==
    { OWNER_REPO \o <<"@">> \o V1,
      OWNER_REPO \o <<"@">> \o DEV,
      OWNER_REPO \o <<"@", "a", "b">>,
      OWNER_REPO \o <<"@">> \o LATEST,
      <<"o", "/">>,
      OWNER_REPO \o <<"/", "x", "@">> \o V1,
      HTTP \o <<":", "x">> }

\* The tags in the order the code host lists them, and the published_at of
\* the release of each tag
TagOrder == <<V1, V2>>

PublishedAt(tag) == IF tag = V1 THEN Date1 ELSE Date2

\* the subsequence of order whose elements are in S
RECURSIVE Restrict(_, _)
Restrict(order, S) ==
    IF order = <<>> THEN <<>>
    ELSE (IF Head(order) \in S THEN <<Head(order)>> ELSE <<>>) \o Restrict(Tail(order), S)

\* github_client.py:183-269, get_releases_info against the tags of the remote:
\* any part of the tag list (a partial view), each tag with the commit it
\* points to and the published date of its release
ReleaseListings(tagShas) ==
    {[i \in DOMAIN Restrict(TagOrder, S) |->
        TagEntry(Restrict(TagOrder, S)[i], tagShas[Restrict(TagOrder, S)[i]],
                 PublishedAt(Restrict(TagOrder, S)[i]))] :
        S \in SUBSET Tags}

\* github_client.py:136-181, get_repository_stats: None or the statistics
StarCounts == {5}

RepositoryStats(owner_repo, tagShas, now) ==
    {NoResponse} \cup
    {[ok |-> TRUE,
      repository |-> [present |-> TRUE, owner_repo |-> owner_repo, stars |-> stars],
      releases |-> rels, last_updated |-> now] :
        stars \in StarCounts, rels \in ReleaseListings(tagShas)}

\* github_client.py:341-362, get_latest_release
LatestReleases(tagShas) ==
    {NoResponse} \cup
    UNION {{[ok |-> TRUE, tag_name |-> t, target_commitish |-> c] :
                c \in {MAIN, tagShas[t]}} : t \in Tags}

\* github_client.py:113-134, get_repository_info
RepositoryInfos == {NoResponse, [ok |-> TRUE, default_branch |-> DEV]}

(***************************************************************************)
(* State.                                                                  *)
(***************************************************************************)
VARIABLES
    existing_metadata,  \* GitHubActionsScanner.existing_metadata
    stats_file,         \* content of config['stats_file'] on disk
    files,              \* scan report files on disk
    remote,             \* tag -> commit of the remote repository
    pc,                 \* position of scan_action
    run,                \* locals of the current scan_action call
    prev,               \* what the previous scan_action call did
    runs,               \* scan_action calls started
    moves,              \* tag moves of the remote so far
    batch,              \* locals of GHASecurityScanner.scan_actions
    disk_faulty         \* whether writing the stats file can fail

vars == <<existing_metadata, stats_file, files, remote, pc, run, prev, runs, moves,
          batch, disk_faulty>>

NoScanInfo == [skip_scan |-> FALSE, scan_path |-> None, commit_sha |-> None, version |-> None]

\* lines 128-134, the result dict of scan_action
NewResult(action_ref) ==
    [success |-> FALSE, action_ref |-> action_ref, scan_type |-> <<"new">>,
     report_path |-> None, scan_path |-> None, error |-> None]

\* the locals of a scan_action call, and counters of what the call has done
NewRun(action_ref, skip_ai_scan) ==
    [action_ref |-> action_ref, skip_ai_scan |-> skip_ai_scan,
     owner_repo |-> None, version |-> None,
     had_record |-> FALSE,
     repo_stats |-> NoResponse, before |-> <<>>, releases_updated |-> 0,
     resolved_version |-> None, commit_sha |-> None, resolve_raised |-> FALSE,
     latest_release |-> NoResponse, repo_info |-> NoResponse,
     scan_info |-> NoScanInfo, healed |-> {}, drifted |-> {},
     action_dir |-> FALSE, temp_dirs |-> 0,
     result |-> NewResult(action_ref),
     refreshes |-> 0, merges |-> 0, resolutions |-> 0, decisions |-> 0,
     downloads |-> 0, analyses |-> 0, records |-> 0, flushes |-> 0]

NoRun == NewRun(None, FALSE)

\* what is remembered of a scan_action call once it has returned: whether it
\* recorded a fresh scan and, if so, of which reference, at what cost and
\* with the tags of the remote at which commits
NoSummary == [fresh |-> FALSE]

Summary(r, tagShas) ==
    IF r.result.success /\ r.records = 1
    THEN [fresh |-> TRUE, action_ref |-> r.action_ref, had_record |-> r.had_record,
          scan_path |-> r.result.scan_path, analyses |-> r.analyses,
          remote |-> tagShas]
    ELSE NoSummary

EmptyMetadata == [r \in {} |-> NoRepository]

\* actionsguardhub.py:258-311, the locals of scan_actions: the list, the
\* position of the loop, the two counters, and what it returned; calls and
\* outcomes are the references handed to scan_action so far and whether each
\* call counted as a success
NewBatch(actions_list, skip_ai_scan) ==
    [actions_list |-> actions_list, skip_ai_scan |-> skip_ai_scan, i |-> 1,
     success_count |-> 0, error_count |-> 0,
     calls |-> <<>>, outcomes |-> <<>>,
     returned |-> FALSE, result |-> FALSE]

NoBatch == NewBatch(<<>>, FALSE)

Init ==
    /\ existing_metadata = EmptyMetadata
    /\ stats_file = EmptyMetadata
    /\ files = {}
    /\ remote = [tag \in Tags |-> IF tag = V1 THEN ShaA ELSE ShaB]
    /\ pc = "idle"
    /\ run = NoRun
    /\ prev = NoSummary
    /\ runs = 0
    /\ moves = 0
    /\ batch = NoBatch
    /\ disk_faulty = FALSE

(***************************************************************************)
(* scan_action, step by step.                                              *)
(***************************************************************************)
\* what is in the stats file after a write that failed once the file was
\* opened: open(.., 'w') has truncated it and json.dump has not completed
Partial == (<<"partial">> :> NoRepository)

\* lines 752-759, _save_metadata: the whole store is written to the file; a
\* failure to open the file or to write it is logged and nothing else
FlushOutcomes ==
    IF disk_faulty THEN {"written", "not opened", "partial"} ELSE {"written"}

FlushStale(metadata) == stats_file' = existing_metadata

Flush(metadata) ==
    \E outcome \in FlushOutcomes :
        stats_file' = IF outcome = "written" THEN metadata
                      ELSE IF outcome = "not opened" THEN stats_file
                      ELSE Partial

\* lines 128-144: the call starts and parses the reference
Start(action_ref, skip_ai_scan) ==
    /\ pc = "idle"
    /\ runs < MaxRuns
    /\ runs' = runs + 1
    /\ LET parsed == parse_action_reference(action_ref)
           owner == parsed[1]
           repo == parsed[2]
           fresh == NewRun(action_ref, skip_ai_scan)
       IN IF ~Truthy(owner) \/ ~Truthy(repo)
          THEN /\ run' = [fresh EXCEPT !.version = parsed[3],
                              !.result.error = <<"Invalid action reference format">>]
               /\ pc' = "done"
          ELSE /\ run' = [fresh EXCEPT !.owner_repo = owner \o <<"/">> \o repo,
                              !.version = parsed[3],
                              !.had_record = (owner \o <<"/">> \o repo) \in DOMAIN existing_metadata]
               /\ pc' = "refresh"
    /\ UNCHANGED <<existing_metadata, stats_file, files, remote, prev, moves>>

\* line 147: scan_action asks for the refresh with force_update=True
ForceUpdateOff == FALSE

ForceUpdate == TRUE

\* lines 235-268, _should_skip_metadata_update: the record has a last_updated
\* (0 stands for a record without one) that is less than six hours old;
\* recent says whether it is
should_skip_metadata_update(metadata, owner_repo, recent) ==
    /\ owner_repo \in DOMAIN metadata
    /\ metadata[owner_repo].last_updated # 0
    /\ recent

RefreshStoreForgets(metadata, owner_repo, repo_stats) ==
    IF ~repo_stats.ok
    THEN {[r \in DOMAIN metadata \ {owner_repo} |-> metadata[r]]}
    ELSE IF owner_repo \notin DOMAIN metadata
    THEN {metadata @@ (owner_repo :>
            [repository |-> repo_stats.repository,
             last_updated |-> repo_stats.last_updated,
             releases |-> repo_stats.releases])}
    ELSE {[metadata EXCEPT ![owner_repo] = merged] :
            merged \in MergeRecord(metadata[owner_repo], repo_stats)}

RefreshStoreTouchesAll(metadata, owner_repo, repo_stats) ==
    IF ~repo_stats.ok THEN {metadata}
    ELSE IF owner_repo \notin DOMAIN metadata
    THEN {[r \in DOMAIN metadata |->
                [metadata[r] EXCEPT !.last_updated = repo_stats.last_updated]]
          @@ (owner_repo :>
                [repository |-> repo_stats.repository,
                 last_updated |-> repo_stats.last_updated,
                 releases |-> repo_stats.releases])}
    ELSE {[r \in DOMAIN metadata |->
                IF r = owner_repo THEN merged
                ELSE [metadata[r] EXCEPT !.last_updated = repo_stats.last_updated]] :
            merged \in MergeRecord(metadata[owner_repo], repo_stats)}

\* lines 215-224: the possible stores after get_repository_stats returned
\* repo_stats: unchanged when it returned nothing, the statistics as the
\* record of a repository that had none, else the merged record
RefreshStore(metadata, owner_repo, repo_stats) ==
    IF ~repo_stats.ok THEN {metadata}
    ELSE IF owner_repo \notin DOMAIN metadata
    THEN {metadata @@ (owner_repo :>
            [repository |-> repo_stats.repository,
             last_updated |-> repo_stats.last_updated,
             releases |-> repo_stats.releases])}
    ELSE {[metadata EXCEPT ![owner_repo] = merged] :
            merged \in MergeRecord(metadata[owner_repo], repo_stats)}

\* lines 313-321: the labels of scanned releases for which the statistics
\* report another latest commit than the one stored
Drifted(existing_releases, new_releases) ==
    {existing_releases[i].name : i \in {j \in DOMAIN existing_releases :
        /\ existing_releases[j].scanned
        /\ HasLabel(new_releases, existing_releases[j].name)
        /\ Release(new_releases, existing_releases[j].name).latest
                # existing_releases[j].latest}}

\* lines 196-233, _update_repository_metadata(owner_repo, force_update)
UpdateRepositoryMetadata ==
    /\ pc = "refresh"
    /\ \E recent \in BOOLEAN :
         IF ~ForceUpdate /\ should_skip_metadata_update(existing_metadata, run.owner_repo, recent)
         THEN UNCHANGED <<existing_metadata, stats_file, run>>
         ELSE \E repo_stats \in RepositoryStats(run.owner_repo, remote, runs) :
                LET known == run.owner_repo \in DOMAIN existing_metadata
                    before == IF known THEN existing_metadata[run.owner_repo].releases
                              ELSE <<>>
                IN /\ \E store \in RefreshStore(existing_metadata, run.owner_repo, repo_stats) :
                        existing_metadata' = store
                   /\ IF repo_stats.ok
                      THEN /\ Flush(existing_metadata')
                           /\ run' = [run EXCEPT !.repo_stats = repo_stats,
                                                 !.before = before,
                                                 !.releases_updated =
                                                    IF known
                                                    THEN ReleasesUpdated(before, repo_stats.releases)
                                                    ELSE 0,
                                                 !.drifted = Drifted(before, repo_stats.releases),
                                                 !.refreshes = @ + 1,
                                                 !.merges = IF known THEN @ + 1 ELSE @,
                                                 !.flushes = @ + 1]
                      ELSE /\ run' = [run EXCEPT !.refreshes = @ + 1]
                           /\ UNCHANGED stats_file
    /\ pc' = "resolve"
    /\ UNCHANGED <<files, remote, prev, runs, moves>>

\* lines 149-153: version resolution; the two API calls are made only on the
\* paths that reach them
ResolveVersion ==
    /\ pc = "resolve"
    /\ LET releases == IF run.owner_repo \in DOMAIN existing_metadata
                       THEN existing_metadata[run.owner_repo].releases ELSE <<>>
           callsApi == run.version \in Aliases /\ LatestByDate(releases, 1, None, 0) = None
       IN \E api_release \in (IF callsApi THEN LatestReleases(remote) ELSE {NoResponse}) :
          \E repo_info \in (IF callsApi /\ ~api_release.ok THEN RepositoryInfos ELSE {NoResponse}) :
            LET resolved == resolve_version_and_sha(existing_metadata, run.owner_repo,
                                                    run.version, api_release, repo_info)
            IN run' = [run EXCEPT !.resolved_version = resolved.version,
                                  !.commit_sha = resolved.sha,
                                  !.resolve_raised = resolved.raised,
                                  !.latest_release = api_release,
                                  !.repo_info = repo_info,
                                  !.resolutions = @ + 1,
                                  !.repo_stats = NoResponse,
                                  !.before = <<>>,
                                  !.releases_updated = 0]
    /\ pc' = "decide"
    /\ UNCHANGED <<existing_metadata, stats_file, files, remote, prev, runs, moves>>

\* lines 158-173: what scan_action does with the decision
AfterDecisionNoReuse(skip_scan, skip_ai_scan) ==
    IF skip_ai_scan THEN "metadata only" ELSE "fresh scan"

AfterDecisionAlwaysScan(skip_scan, skip_ai_scan) ==
    IF skip_scan THEN "existing" ELSE "fresh scan"

AfterDecision(skip_scan, skip_ai_scan) ==
    IF skip_scan THEN "existing"
    ELSE IF skip_ai_scan THEN "metadata only"
    ELSE "fresh scan"

\* lines 155-171: the reuse decision and the two outcomes without a scan.
\* _generate_report_from_existing returns a path, or None when it fails.
CheckExistingScan ==
    /\ pc = "decide"
    /\ LET known == run.owner_repo \in DOMAIN existing_metadata
           before == IF known THEN existing_metadata[run.owner_repo].releases ELSE <<>>
           checked == check_existing_scan(existing_metadata, run.owner_repo,
                                          run.resolved_version, files)
           decided == [run EXCEPT !.scan_info = checked.result,
                                  !.latest_release = NoResponse,
                                  !.repo_info = NoResponse,
                                  !.before = before,
                                  !.decisions = @ + 1]
       IN /\ existing_metadata' =
                IF known
                THEN [existing_metadata EXCEPT ![run.owner_repo].releases = checked.releases]
                ELSE existing_metadata
          /\ IF AfterDecision(checked.result.skip_scan, run.skip_ai_scan) = "existing"
             THEN /\ \E report_path \in {None, REPORT} :
                       run' = [decided EXCEPT !.result.scan_type = <<"existing">>,
                                              !.result.report_path = report_path,
                                              !.result.success = TRUE]
                  /\ pc' = "done"
             ELSE IF AfterDecision(checked.result.skip_scan, run.skip_ai_scan) = "metadata only"
             THEN /\ run' = [decided EXCEPT !.result.success = TRUE]
                  /\ pc' = "done"
             ELSE /\ run' = decided
                  /\ pc' = "download"
    /\ UNCHANGED <<stats_file, files, remote, prev, runs, moves>>

\* lines 548-554, the finally clause of _perform_fresh_scan: the directory
\* download_action returned is removed. lines 186-189: the stage's error is
\* the error of the outcome.
ScanFailedSilently(r, error) ==
    [r EXCEPT !.temp_dirs = IF r.action_dir THEN @ - 1 ELSE @,
              !.action_dir = FALSE]

ScanFailed(r, error) ==
    [r EXCEPT !.result.error = error,
              !.temp_dirs = IF r.action_dir THEN @ - 1 ELSE @,
              !.action_dir = FALSE]

\* lines 484-488 and github_client.py:453-544, download_action: a directory,
\* or None after a failed request (the temporary directory is removed), or
\* None for an archive without a directory (it is not)
DownloadAction ==
    /\ pc = "download"
    /\ \E outcome \in {"directory", "request failed", "no directory"} :
         LET requested == [run EXCEPT !.downloads = @ + 1]
         IN IF outcome = "directory"
            THEN /\ run' = [requested EXCEPT !.action_dir = TRUE, !.temp_dirs = @ + 1]
                 /\ pc' = "extract"
            ELSE /\ run' = ScanFailed(
                              [requested EXCEPT !.temp_dirs =
                                    IF outcome = "no directory" THEN @ + 1 ELSE @],
                              <<"Failed to download action">>)
                 /\ pc' = "done"
    /\ UNCHANGED <<existing_metadata, stats_file, files, remote, prev, runs, moves>>

\* lines 490-505: extraction, validation and preparation of the files
ExtractFiles ==
    /\ pc = "extract"
    /\ \E outcome \in {"files", "none", "invalid", "raised"} :
         IF outcome = "files"
         THEN /\ pc' = "analyze"
              /\ UNCHANGED run
         ELSE /\ run' = ScanFailed(run,
                            IF outcome = "none" THEN <<"No analyzable files found">>
                            ELSE IF outcome = "invalid" THEN <<"File validation failed">>
                            ELSE <<"exception">>)
              /\ pc' = "done"
    /\ UNCHANGED <<existing_metadata, stats_file, files, remote, prev, runs, moves>>

\* lines 507-511: the AnalysisProvider call
AnalyzeSecurity ==
    /\ pc = "analyze"
    /\ \E outcome \in {"success", "failure", "raised"} :
         LET analysed == [run EXCEPT !.analyses = @ + 1]
         IN IF outcome = "success"
            THEN /\ run' = analysed
                 /\ pc' = "save"
            ELSE /\ run' = ScanFailed(analysed,
                              IF outcome = "failure" THEN <<"AI analysis failed">>
                              ELSE <<"exception">>)
                 /\ pc' = "done"
    /\ UNCHANGED <<existing_metadata, stats_file, files, remote, prev, runs, moves>>

\* lines 513-541 and 556-631: _save_scan_results writes the artifact (it can
\* fail before or after the artifact is on disk), the report is generated and
\* the temporary directory removed; then lines 177-185: the result is taken
\* over, _update_scan_metadata records the scan and _save_metadata flushes
SaveAndRecord ==
    /\ pc = "save"
    /\ LET resolved_action_ref == run.owner_repo \o <<"@">> \o run.resolved_version
           scan_path == ScanPath(resolved_action_ref)
       IN \E outcome \in {"saved", "not written", "written, then failed"} :
            IF outcome = "saved"
            THEN \E report_path \in {None, REPORT} :
                   LET scan_result == FreshScanResult(TRUE, scan_path, report_path)
                   IN /\ files' = files \cup {scan_path}
                      /\ existing_metadata' =
                            update_scan_metadata(existing_metadata, run.owner_repo,
                                                 run.resolved_version, scan_result)
                      /\ Flush(existing_metadata')
                      /\ run' = [run EXCEPT !.result.success = TRUE,
                                            !.result.scan_path = scan_result.scan_path,
                                            !.result.report_path = scan_result.report_path,
                                            !.records = @ + 1,
                                            !.flushes = @ + 1,
                                            !.temp_dirs = @ - 1,
                                            !.action_dir = FALSE]
            ELSE /\ files' = IF outcome = "not written" THEN files ELSE files \cup {scan_path}
                 /\ run' = ScanFailed(run, <<"Failed to save scan results">>)
                 /\ UNCHANGED <<existing_metadata, stats_file>>
    /\ pc' = "done"
    /\ UNCHANGED <<remote, prev, runs, moves>>

\* KeyboardInterrupt during the fresh scan. "except Exception" does not catch
\* it: inside download_action (github_client.py:465-544) the temporary
\* directory, when mkdtemp has made it, is left behind; later (lines 548-554)
\* the finally clause removes the directory. scan_action does not return and
\* the interrupt ends scan_actions as well.
Cancel ==
    /\ pc \in {"download", "extract", "analyze", "save"}
    /\ IF pc = "download"
       THEN \E made \in BOOLEAN :
              run' = [run EXCEPT !.downloads = @ + 1,
                                 !.temp_dirs = IF made THEN @ + 1 ELSE @]
       ELSE run' = [run EXCEPT !.temp_dirs = @ - 1, !.action_dir = FALSE]
    /\ pc' = "cancelled"
    /\ UNCHANGED <<existing_metadata, stats_file, files, remote, prev, runs, moves>>

\* scan_action has returned; the caller may start the next call
Return ==
    /\ pc = "done"
    /\ pc' = "idle"
    /\ prev' = Summary(run, remote)
    /\ run' = NoRun
    /\ UNCHANGED <<existing_metadata, stats_file, files, remote, runs, moves>>

(***************************************************************************)
(* The environment between two calls.                                      *)
(***************************************************************************)
\* a tag of the remote repository is moved to another commit
MoveTag(tag, sha) ==
    /\ pc = "idle"
    /\ moves < MaxMoves
    /\ remote[tag] # sha
    /\ remote' = [remote EXCEPT ![tag] = sha]
    /\ moves' = moves + 1
    /\ UNCHANGED <<existing_metadata, stats_file, files, pc, run, prev, runs>>

\* a scan report file is removed from the disk
DeleteArtifact(path) ==
    /\ pc = "idle"
    /\ path \in files
    /\ files' = files \ {path}
    /\ UNCHANGED <<existing_metadata, stats_file, remote, pc, run, prev, runs, moves>>

Next ==
    \/ /\ \E action_ref \in ActionRefs, skip_ai_scan \in BOOLEAN :
             Start(action_ref, skip_ai_scan)
       /\ UNCHANGED <<batch, disk_faulty>>
    \/ UpdateRepositoryMetadata /\ UNCHANGED <<batch, disk_faulty>>
    \/ ResolveVersion /\ UNCHANGED <<batch, disk_faulty>>
    \/ CheckExistingScan /\ UNCHANGED <<batch, disk_faulty>>
    \/ DownloadAction /\ UNCHANGED <<batch, disk_faulty>>
    \/ ExtractFiles /\ UNCHANGED <<batch, disk_faulty>>
    \/ AnalyzeSecurity /\ UNCHANGED <<batch, disk_faulty>>
    \/ SaveAndRecord /\ UNCHANGED <<batch, disk_faulty>>
    \/ Cancel /\ UNCHANGED <<batch, disk_faulty>>
    \/ Return /\ UNCHANGED <<batch, disk_faulty>>
    \/ /\ \E tag \in Tags, sha \in Shas : MoveTag(tag, sha)
       /\ UNCHANGED <<batch, disk_faulty>>
    \/ /\ \E path \in files : DeleteArtifact(path)
       /\ UNCHANGED <<batch, disk_faulty>>

Spec == Init /\ [][Next]_vars

(***************************************************************************)
(* GHASecurityScanner.scan_actions: the batch over a list of references.   *)
(***************************************************************************)
\* the references of a batch: a tag, an alias and a malformed reference
BatchRefs ==
    { OWNER_REPO \o <<"@">> \o V1,
      OWNER_REPO \o <<"@">> \o LATEST,
      <<"o", "/">> }

RECURSIVE ListsUpTo(_, _)
ListsUpTo(S, n) ==
    IF n = 0 THEN {<<>>}
    ELSE ListsUpTo(S, n - 1)
         \cup {Append(l, x) : l \in {q \in ListsUpTo(S, n - 1) : Len(q) = n - 1}, x \in S}

BatchInit ==
    /\ existing_metadata = EmptyMetadata
    /\ stats_file = EmptyMetadata
    /\ files = {}
    /\ remote = [tag \in Tags |-> IF tag = V1 THEN ShaA ELSE ShaB]
    /\ pc = "idle"
    /\ run = NoRun
    /\ prev = NoSummary
    /\ runs = 0
    /\ moves = 0
    /\ \E actions_list \in ListsUpTo(BatchRefs, MaxRuns), skip_ai_scan \in BOOLEAN :
         batch = NewBatch(actions_list, skip_ai_scan)
    /\ disk_faulty = FALSE

\* actionsguardhub.py:286-302: the counters after one reference; the loop
\* goes on to the next reference in either case
AfterScanStop(b, success) ==
    [b EXCEPT !.success_count = IF success THEN @ + 1 ELSE @,
              !.error_count = IF success THEN @ ELSE @ + 1,
              !.outcomes = Append(@, success),
              !.i = IF success THEN @ + 1 ELSE Len(b.actions_list) + 1]

AfterScan(b, success) ==
    [b EXCEPT !.success_count = IF success THEN @ + 1 ELSE @,
              !.error_count = IF success THEN @ ELSE @ + 1,
              !.outcomes = Append(@, success),
              !.i = @ + 1]

\* actionsguardhub.py:278-284: the loop hands the next reference to scan_action
ScanNext ==
    /\ ~batch.returned
    /\ batch.i <= Len(batch.actions_list)
    /\ Start(batch.actions_list[batch.i], batch.skip_ai_scan)
    /\ batch' = [batch EXCEPT !.calls = Append(@, batch.actions_list[batch.i])]
    /\ UNCHANGED disk_faulty

\* actionsguardhub.py:300-302: an exception that escapes the call is counted
\* as an error
ScanActionRaised ==
    /\ ~batch.returned
    /\ batch.i <= Len(batch.actions_list)
    /\ pc = "idle"
    /\ batch' = AfterScan([batch EXCEPT !.calls = Append(@, batch.actions_list[batch.i])],
                          FALSE)
    /\ UNCHANGED <<existing_metadata, stats_file, files, remote, pc, run, prev, runs,
                   moves, disk_faulty>>

\* actionsguardhub.py:284-298: scan_action has returned its result
ScanReturned ==
    /\ Return
    /\ batch' = AfterScan(batch, run.result.success)
    /\ UNCHANGED disk_faulty

\* actionsguardhub.py:310-311: the loop is over
ScanActionsReturn ==
    /\ ~batch.returned
    /\ pc = "idle"
    /\ batch.i > Len(batch.actions_list)
    /\ batch' = [batch EXCEPT !.returned = TRUE, !.result = (batch.error_count = 0)]
    /\ UNCHANGED <<existing_metadata, stats_file, files, remote, pc, run, prev, runs,
                   moves, disk_faulty>>

BatchNext ==
    \/ ScanNext
    \/ ScanActionRaised
    \/ UpdateRepositoryMetadata /\ UNCHANGED <<batch, disk_faulty>>
    \/ ResolveVersion /\ UNCHANGED <<batch, disk_faulty>>
    \/ CheckExistingScan /\ UNCHANGED <<batch, disk_faulty>>
    \/ DownloadAction /\ UNCHANGED <<batch, disk_faulty>>
    \/ ExtractFiles /\ UNCHANGED <<batch, disk_faulty>>
    \/ AnalyzeSecurity /\ UNCHANGED <<batch, disk_faulty>>
    \/ SaveAndRecord /\ UNCHANGED <<batch, disk_faulty>>
    \/ Cancel /\ UNCHANGED <<batch, disk_faulty>>
    \/ ScanReturned
    \/ ScanActionsReturn

BatchSpec == BatchInit /\ [][BatchNext]_vars

(***************************************************************************)
(* scan_action with a stats file whose writes can fail.                    *)
(***************************************************************************)
FaultyInit ==
    /\ existing_metadata = EmptyMetadata
    /\ stats_file = EmptyMetadata
    /\ files = {}
    /\ remote = [tag \in Tags |-> IF tag = V1 THEN ShaA ELSE ShaB]
    /\ pc = "idle"
    /\ run = NoRun
    /\ prev = NoSummary
    /\ runs = 0
    /\ moves = 0
    /\ batch = NoBatch
    /\ disk_faulty = TRUE

\* the references scanned while the writes can fail
FaultyRefs == {OWNER_REPO \o <<"@">> \o V1, OWNER_REPO \o <<"@">> \o LATEST}

FaultyNext ==
    \/ /\ \E action_ref \in FaultyRefs, skip_ai_scan \in BOOLEAN :
             Start(action_ref, skip_ai_scan)
       /\ UNCHANGED <<batch, disk_faulty>>
    \/ UpdateRepositoryMetadata /\ UNCHANGED <<batch, disk_faulty>>
    \/ ResolveVersion /\ UNCHANGED <<batch, disk_faulty>>
    \/ CheckExistingScan /\ UNCHANGED <<batch, disk_faulty>>
    \/ DownloadAction /\ UNCHANGED <<batch, disk_faulty>>
    \/ ExtractFiles /\ UNCHANGED <<batch, disk_faulty>>
    \/ AnalyzeSecurity /\ UNCHANGED <<batch, disk_faulty>>
    \/ SaveAndRecord /\ UNCHANGED <<batch, disk_faulty>>
    \/ Return /\ UNCHANGED <<batch, disk_faulty>>

FaultySpec == FaultyInit /\ [][FaultyNext]_vars

(***************************************************************************)
(* The functions of the store applied to a store loaded from the stats     *)
(* file (load_existing_metadata, lines 69-90): one record of the           *)
(* repository with up to two releases in either order, or none.            *)
(***************************************************************************)
\* latest and the SHA list of a loaded release: one SHA, an older SHA before
\* the current one, or what _update_scan_metadata creates
LoadedShas ==
    {[latest |-> s, sha |-> <<s>>] : s \in Shas}
    \cup {[latest |-> s, sha |-> <<o, s>>] : s \in Shas, o \in Shas}
    \cup {[latest |-> None, sha |-> <<None>>]}

\* the scan state of a loaded release: not scanned, scanned with a report
\* and either verdict, or marked scanned without a report
LoadedScanStates(tag) ==
    {[scanned |-> FALSE, scan_report |-> None, safe |-> TRUE],
     [scanned |-> TRUE, scan_report |-> ScanPath(OWNER_REPO \o <<"@">> \o tag), safe |-> TRUE],
     [scanned |-> TRUE, scan_report |-> ScanPath(OWNER_REPO \o <<"@">> \o tag), safe |-> FALSE],
     [scanned |-> TRUE, scan_report |-> None, safe |-> TRUE]}

LoadedRelease(tag) ==
    {[name |-> tag, published_date |-> d, scanned |-> st.scanned, latest |-> h.latest,
      sha |-> h.sha, safe |-> st.safe, scan_report |-> st.scan_report] :
        d \in Dates, h \in {x \in LoadedShas : Cardinality(Range(x.sha)) = Len(x.sha)},
        st \in LoadedScanStates(tag)}

\* a release whose label is a reference that was scanned without a listing
\* of the repository (a branch or an unresolved SHA prefix): what
\* _update_scan_metadata creates, or a listed branch of that name
LoadedBranch ==
    {[name |-> <<"a", "b">>, published_date |-> NA, scanned |-> st.scanned,
      latest |-> h.latest, sha |-> h.sha, safe |-> TRUE, scan_report |-> st.scan_report] :
        h \in {[latest |-> None, sha |-> <<None>>], [latest |-> ShaB, sha |-> <<ShaB>>]},
        st \in {[scanned |-> FALSE, scan_report |-> None],
                [scanned |-> TRUE, scan_report |-> ScanPath(OWNER_REPO \o <<"@", "a", "b">>)]}}

LoadedReleases ==
    {<<>>}
    \cup UNION {{<<r>> : r \in LoadedRelease(t)} : t \in Tags}
    \cup {<<r1, r2>> : r1 \in LoadedRelease(V1), r2 \in LoadedRelease(V2)}
    \cup {<<r2, r1>> : r1 \in LoadedRelease(V1), r2 \in LoadedRelease(V2)}
    \cup {<<b, r1>> : b \in LoadedBranch, r1 \in LoadedRelease(V1)}
    \cup {<<r1, b>> : b \in LoadedBranch, r1 \in LoadedRelease(V1)}

LoadedInit ==
    /\ \E rels \in LoadedReleases :
         existing_metadata = (OWNER_REPO :>
            [repository |-> NoRepository, last_updated |-> 0, releases |-> rels])
    /\ stats_file = existing_metadata
    /\ files = {}
    /\ remote = [tag \in Tags |-> IF tag = V1 THEN ShaA ELSE ShaB]
    /\ pc = "loaded"
    /\ run = NoRun
    /\ prev = NoSummary
    /\ runs = 0
    /\ moves = 0
    /\ batch = NoBatch
    /\ disk_faulty = FALSE

\* the version strings the functions are called with: a label, a SHA prefix,
\* a full SHA, an alias and a branch that is in no record
ResolvedVersions == {V1, <<"a", "b">>, ShaA, LATEST, DEV}

CheckedVersions == {V1, <<"a", "b">>, DEV}

\* _merge_repository_metadata(owner_repo, new_stats)
CallMerge ==
    /\ pc = "loaded"
    /\ \E new_stats \in RepositoryStats(OWNER_REPO, remote, 1) \ {NoResponse} :
       \E merged \in MergeRecord(existing_metadata[OWNER_REPO], new_stats) :
         /\ existing_metadata' = [existing_metadata EXCEPT ![OWNER_REPO] = merged]
         /\ run' = [NoRun EXCEPT !.owner_repo = OWNER_REPO,
                                 !.had_record = TRUE,
                                 !.repo_stats = new_stats,
                                 !.before = existing_metadata[OWNER_REPO].releases,
                                 !.releases_updated =
                                      ReleasesUpdated(existing_metadata[OWNER_REPO].releases,
                                                      new_stats.releases),
                                 !.refreshes = 1,
                                 !.merges = 1]
    /\ pc' = "resolve"
    /\ UNCHANGED <<stats_file, files, remote, prev, runs, moves>>

\* resolve_version_and_sha(owner, repo, version, existing_metadata)
CallResolve ==
    /\ pc = "loaded"
    /\ \E version \in ResolvedVersions :
       LET callsApi == /\ version \in Aliases
                       /\ LatestByDate(existing_metadata[OWNER_REPO].releases, 1, None, 0) = None
       IN
       \E api_release \in (IF callsApi THEN LatestReleases(remote) ELSE {NoResponse}) :
       \E repo_info \in (IF callsApi /\ ~api_release.ok
                         THEN RepositoryInfos ELSE {NoResponse}) :
         LET resolved == resolve_version_and_sha(existing_metadata, OWNER_REPO, version,
                                                 api_release, repo_info)
         IN run' = [NoRun EXCEPT !.owner_repo = OWNER_REPO,
                                 !.had_record = TRUE,
                                 !.version = version,
                                 !.resolved_version = resolved.version,
                                 !.commit_sha = resolved.sha,
                                 !.resolve_raised = resolved.raised,
                                 !.latest_release = api_release,
                                 !.repo_info = repo_info,
                                 !.resolutions = 1]
    /\ pc' = "decide"
    /\ UNCHANGED <<existing_metadata, stats_file, files, remote, prev, runs, moves>>

\* _check_existing_scan(owner_repo, version), with the scan reports in disk
\* on the disk
CallCheck ==
    /\ pc = "loaded"
    /\ \E version \in CheckedVersions :
       \E disk \in SUBSET {ScanPath(OWNER_REPO \o <<"@">> \o t) : t \in Tags} :
         LET checked == check_existing_scan(existing_metadata, OWNER_REPO, version, disk)
         IN /\ files' = disk
            /\ existing_metadata' =
                  [existing_metadata EXCEPT ![OWNER_REPO].releases = checked.releases]
            /\ run' = [NoRun EXCEPT !.owner_repo = OWNER_REPO,
                                    !.had_record = TRUE,
                                    !.resolved_version = version,
                                    !.scan_info = checked.result,
                                    !.before = existing_metadata[OWNER_REPO].releases,
                                    !.decisions = 1]
    /\ pc' = "decided"
    /\ UNCHANGED <<stats_file, remote, prev, runs, moves>>

\* _merge_repository_metadata(owner_repo, new_stats) once more with the same
\* new_stats; prev keeps the record as the first merge left it
CallMergeAgain ==
    /\ pc = "resolve"
    /\ run.merges = 1
    /\ \E merged \in MergeRecord(existing_metadata[OWNER_REPO], run.repo_stats) :
         existing_metadata' = [existing_metadata EXCEPT ![OWNER_REPO] = merged]
    /\ prev' = existing_metadata[OWNER_REPO]
    /\ run' = [run EXCEPT !.merges = 2]
    /\ pc' = "merged again"
    /\ UNCHANGED <<stats_file, files, remote, runs, moves>>

LoadedNext ==
    \/ CallMerge /\ UNCHANGED <<batch, disk_faulty>>
    \/ CallMergeAgain /\ UNCHANGED <<batch, disk_faulty>>
    \/ CallResolve /\ UNCHANGED <<batch, disk_faulty>>
    \/ CallCheck /\ UNCHANGED <<batch, disk_faulty>>

LoadedSpec == LoadedInit /\ [][LoadedNext]_vars

(***************************************************************************)
(* _update_repository_metadata on a store that holds two repositories:     *)
(* one refresh of one repository, then one refresh of the other.           *)
(***************************************************************************)
OTHER_REPO == <<"o", "/", "s">>

Repositories == {OWNER_REPO, OTHER_REPO}

\* the records of a loaded store: no release, or the release V1 with its
\* current or an older commit, scanned or not
StoredRecords(owner_repo) ==
    {[repository |-> NoRepository, last_updated |-> 0, releases |-> rels] :
        rels \in {<<>>} \cup
            {<<[name |-> V1, published_date |-> Date1, scanned |-> scanned,
                latest |-> s, sha |-> <<s>>, safe |-> TRUE,
                scan_report |-> IF scanned THEN ScanPath(owner_repo \o <<"@">> \o V1)
                                ELSE None]>> :
                s \in Shas, scanned \in BOOLEAN}}

\* lines 69-90, load_existing_metadata: each repository has a record or none
StoredMetadata ==
    UNION {[known -> UNION {StoredRecords(r) : r \in known}] : known \in SUBSET Repositories}

RefreshInit ==
    /\ existing_metadata \in {m \in StoredMetadata :
                                \A r \in DOMAIN m : m[r] \in StoredRecords(r)}
    /\ stats_file = existing_metadata
    /\ files = {}
    /\ remote = [tag \in Tags |-> IF tag = V1 THEN ShaA ELSE ShaB]
    /\ pc = "loaded"
    /\ run = NoRun
    /\ prev = NoSummary
    /\ runs = 0
    /\ moves = 0
    /\ batch = NoBatch
    /\ disk_faulty = FALSE

\* the locals of the two refreshes: the repository and the statistics of
\* each, and the store before and after the first
NewRefresh(owner_repo, repo_stats, before, after) ==
    [first |-> [owner_repo |-> owner_repo, repo_stats |-> repo_stats],
     second |-> [owner_repo |-> None, repo_stats |-> NoResponse],
     before |-> before, between |-> after]

\* lines 196-233 for the first repository
RefreshFirst ==
    /\ pc = "loaded"
    /\ \E owner_repo \in Repositories :
       \E repo_stats \in RepositoryStats(owner_repo, remote, 1) :
       \E store \in RefreshStore(existing_metadata, owner_repo, repo_stats) :
            /\ existing_metadata' = store
            /\ IF repo_stats.ok THEN Flush(existing_metadata') ELSE UNCHANGED stats_file
            /\ run' = NewRefresh(owner_repo, repo_stats, existing_metadata, store)
    /\ pc' = "refreshed one"
    /\ UNCHANGED <<files, remote, prev, runs, moves>>

\* lines 196-233 for the other repository
RefreshSecond ==
    /\ pc = "refreshed one"
    /\ \E owner_repo \in Repositories \ {run.first.owner_repo} :
       \E repo_stats \in RepositoryStats(owner_repo, remote, 2) :
       \E store \in RefreshStore(existing_metadata, owner_repo, repo_stats) :
            /\ existing_metadata' = store
            /\ IF repo_stats.ok THEN Flush(existing_metadata') ELSE UNCHANGED stats_file
            /\ run' = [run EXCEPT !.second = [owner_repo |-> owner_repo,
                                              repo_stats |-> repo_stats]]
    /\ pc' = "refreshed both"
    /\ UNCHANGED <<files, remote, prev, runs, moves>>

RefreshNext ==
    \/ RefreshFirst /\ UNCHANGED <<batch, disk_faulty>>
    \/ RefreshSecond /\ UNCHANGED <<batch, disk_faulty>>

RefreshSpec == RefreshInit /\ [][RefreshNext]_vars

(***************************************************************************)
(* Properties.                                                             *)
(***************************************************************************)
\* the releases stored for the repository of the current call
StoredReleases ==
    IF run.owner_repo \in DOMAIN existing_metadata
    THEN existing_metadata[run.owner_repo].releases ELSE <<>>

\* _update_repository_metadata has just merged run.repo_stats into the record
\* whose releases were run.before
JustMerged == pc = "resolve" /\ run.merges = 1

\* resolve_version_and_sha has just returned
JustResolved == pc = "decide" /\ run.resolutions = 1

\* _check_existing_scan has returned and nothing was recorded since;
\* run.before holds the releases it was called on
JustDecided == run.decisions = 1 /\ run.records = 0

\* C1: a call that finds no record and records a fresh scan is followed, for
\* the identical reference, the artifact still on disk and every tag still at
\* its commit, by a call that returns scan_type=existing without analysis;
\* the AnalysisProvider is invoked once over the two calls.
C1_SecondRunReusesScan ==
    ( /\ pc = "done"
      /\ prev.fresh
      /\ ~prev.had_record
      /\ prev.action_ref = run.action_ref
      /\ ~run.skip_ai_scan
      /\ prev.scan_path \in files
      /\ prev.remote = remote )
    => ( /\ run.result.scan_type = <<"existing">>
         /\ run.analyses = 0
         /\ prev.analyses + run.analyses = 1 )

\* C2: whenever the decision reports reuse, the call is over with success=true
\* and scan_type=existing, and it has requested no download, invoked no
\* analysis and recorded no scan.
C2_ReuseSkipsScan ==
    run.scan_info.skip_scan
    => ( /\ pc = "done"
         /\ run.result.success
         /\ run.result.scan_type = <<"existing">>
         /\ run.downloads = 0
         /\ run.analyses = 0
         /\ run.records = 0 )

C2_Witness ==
    /\ pc = "done"
    /\ run.scan_info.skip_scan
    /\ run.result.scan_type = <<"existing">>

\* the incoming release set of the merge that has just run
Incoming == run.repo_stats.releases

\* C3: after a merge, every label of the stored record that is also in the
\* incoming release set with a different latest SHA is stored with
\* scanned=false, scan_report=null and safe=true.
C3_DriftResetsScan ==
    JustMerged
    => \A i \in DOMAIN Incoming :
         ( /\ HasLabel(run.before, Incoming[i].name)
           /\ Release(run.before, Incoming[i].name).latest # Incoming[i].latest )
         => LET release == Release(StoredReleases, Incoming[i].name)
            IN /\ ~release.scanned
               /\ release.scan_report = None
               /\ release.safe

C3_Witness ==
    /\ JustMerged
    /\ \E i \in DOMAIN Incoming :
         /\ HasLabel(run.before, Incoming[i].name)
         /\ LET old == Release(run.before, Incoming[i].name)
            IN /\ old.latest \in Shas
               /\ old.latest # Incoming[i].latest
               /\ old.scanned
               /\ old.scan_report # None
               /\ ~old.safe
         /\ ~Release(StoredReleases, Incoming[i].name).scanned

\* C4: after a merge, every label of the stored record that is also in the
\* incoming release set has as its SHA set the union of the stored and the
\* incoming SHA set.
C4_MergeUnitesShas ==
    JustMerged
    => \A i \in DOMAIN run.repo_stats.releases :
         LET name == run.repo_stats.releases[i].name
         IN HasLabel(run.before, name)
            => Range(Release(StoredReleases, name).sha)
                 = Range(Release(run.before, name).sha)
                   \cup Range(run.repo_stats.releases[i].sha)

\* C5: after a merge, every release of the stored record whose label is not
\* in the incoming release set is still there with all its fields unchanged.
C5_UnseenLabelsKept ==
    JustMerged
    => \A j \in DOMAIN run.before :
         run.before[j].name \notin Labels(Incoming)
         => /\ HasLabel(StoredReleases, run.before[j].name)
            /\ Release(StoredReleases, run.before[j].name) = run.before[j]

C5_Witness ==
    /\ JustMerged
    /\ Incoming # <<>>
    /\ \E j \in DOMAIN run.before :
         /\ run.before[j].name \notin Labels(Incoming)
         /\ run.before[j].scanned
         /\ Release(StoredReleases, run.before[j].name) = run.before[j]

\* a release marked scanned, with a report path, whose file is not on disk
MissingArtifact(release) ==
    release.scanned /\ release.scan_report # None /\ release.scan_report \notin files

\* a release whose scan can be reused
ReusableScan(release) ==
    release.scanned /\ release.scan_report # None /\ release.scan_report \in files

\* The labels _check_existing_scan locates in rels for version: the release of
\* that label, and the releases it reaches through a SHA that equals or
\* starts with version; it stops at the first reusable scan and at a SHA
\* entry that is None.
LocatedLabels(rels, version) ==
    LET entries == ShaEntries(rels, 1)
        direct == IF HasLabel(rels, version) THEN {version} ELSE {}
        stopsAt(k) == \/ entries[k].sha = None
                      \/ /\ StartsWith(entries[k].sha, version)
                         /\ ReusableScan(Release(rels, entries[k].name))
    IN IF \E n \in direct : ReusableScan(Release(rels, n)) THEN direct
       ELSE direct \cup
            {entries[k].name : k \in {m \in DOMAIN entries :
                /\ entries[m].sha # None
                /\ StartsWith(entries[m].sha, version)
                /\ \A e \in 1..(m - 1) : ~stopsAt(e)}}

\* C6: when _check_existing_scan locates a release that is marked scanned with
\* a report whose file is missing, the release is afterwards scanned=false,
\* scan_report=null, and a reuse it reports is not of that release: the path
\* it reports is another one, of a file that exists.
C6_MissingArtifactHeals ==
    JustDecided
    => \A name \in LocatedLabels(run.before, run.resolved_version) :
         MissingArtifact(Release(run.before, name))
         => /\ ~Release(StoredReleases, name).scanned
            /\ Release(StoredReleases, name).scan_report = None
            /\ run.scan_info.skip_scan
                 => /\ run.scan_info.scan_path \in files
                    /\ run.scan_info.scan_path # Release(run.before, name).scan_report
            /\ (\A other \in LocatedLabels(run.before, run.resolved_version) :
                    ~ReusableScan(Release(run.before, other)))
                 => ~run.scan_info.skip_scan

C6_Witness ==
    /\ JustDecided
    /\ ~run.scan_info.skip_scan
    /\ ~HasLabel(run.before, run.resolved_version)
    /\ \E name \in LocatedLabels(run.before, run.resolved_version) :
         /\ MissingArtifact(Release(run.before, name))
         /\ ~Release(StoredReleases, name).scanned
         /\ Release(StoredReleases, name).scan_report = None

\* published dates that parse, and the point in time of each
IsoDates == {Date1, Date2}

TimeOf(date) == IF date = Date1 THEN 1 ELSE 2

\* C7: an alias, on a record with at least one release whose published_date
\* parses, resolves to a release with a parsed date that no other parsed date
\* of the record exceeds, together with that release's latest SHA.
C7_AliasPicksMostRecent ==
    ( /\ JustResolved
      /\ run.version \in Aliases
      /\ \E i \in DOMAIN StoredReleases : StoredReleases[i].published_date \in IsoDates )
    => /\ HasLabel(StoredReleases, run.resolved_version)
       /\ LET release == Release(StoredReleases, run.resolved_version)
          IN /\ release.published_date \in IsoDates
             /\ \A i \in DOMAIN StoredReleases :
                  StoredReleases[i].published_date \in IsoDates
                  => TimeOf(StoredReleases[i].published_date) <= TimeOf(release.published_date)
             /\ run.commit_sha = release.latest

C7_Witness ==
    /\ JustResolved
    /\ run.version = LATEST
    /\ Len(StoredReleases) = 2
    /\ StoredReleases[1].published_date = Date1
    /\ StoredReleases[2].published_date = Date2
    /\ run.resolved_version = StoredReleases[2].name
    /\ run.commit_sha = StoredReleases[2].latest

\* C8: a version that is no alias and no label of the record, but equals or
\* is a prefix of a SHA in some release's list, resolves to a release that
\* has a SHA with that prefix, together with that full SHA.
C8_ShaPrefixLookup ==
    ( /\ JustResolved
      /\ run.version \notin Aliases
      /\ ~HasLabel(StoredReleases, run.version)
      /\ \E i \in DOMAIN StoredReleases : \E j \in DOMAIN StoredReleases[i].sha :
            /\ StoredReleases[i].sha[j] # None
            /\ StartsWith(StoredReleases[i].sha[j], run.version) )
    => ( /\ HasLabel(StoredReleases, run.resolved_version)
         /\ run.commit_sha # None
         /\ run.commit_sha \in Range(Release(StoredReleases, run.resolved_version).sha)
         /\ StartsWith(run.commit_sha, run.version) )

\* C9: once a call has recorded its fresh scan of commit commit_sha under the
\* resolved label, the store has a release of that label with scanned=true,
\* scan_report the new artifact path, latest=commit_sha and commit_sha in sha.
C9_RecordScanSetsRelease ==
    (pc = "done" /\ run.records = 1)
    => /\ HasLabel(StoredReleases, run.resolved_version)
       /\ LET release == Release(StoredReleases, run.resolved_version)
          IN /\ release.scanned
             /\ release.scan_report = run.result.scan_path
             /\ release.scan_report # None
             /\ release.latest = run.commit_sha
             /\ run.commit_sha \in Range(release.sha)

\* The repository part of a reference: the text before the '@', or for a URL
\* the text after the host
RepositoryPart(action_ref) ==
    IF StartsWith(action_ref, HTTP)
    THEN IF Find(action_ref, GITHUB_COM) = 0 THEN <<>>
         ELSE RStrip(After(action_ref, GITHUB_COM), "/")
    ELSE Before(action_ref, <<"@">>)

\* owner/repo with exactly one '/' and both parts non-empty
IsOwnerRepo(part) ==
    \E i \in 2..(Len(part) - 1) :
        /\ part[i] = "/"
        /\ \A j \in DOMAIN part : j # i => part[j] # "/"

MalformedCall(r) == r.action_ref # None /\ ~IsOwnerRepo(RepositoryPart(r.action_ref))

\* C10: a call with a malformed reference is over at once with success=false
\* and the invalid-reference error; it refreshes, resolves, decides, downloads,
\* analyses, records and flushes nothing, and leaves the store and the stats
\* file as they were.
C10_MalformedStopsAtParse ==
    /\ [](MalformedCall(run)
            => /\ pc = "done"
               /\ ~run.result.success
               /\ run.result.error = <<"Invalid action reference format">>
               /\ run.refreshes = 0 /\ run.merges = 0 /\ run.resolutions = 0
               /\ run.decisions = 0 /\ run.downloads = 0 /\ run.analyses = 0
               /\ run.records = 0 /\ run.flushes = 0)
    /\ [][MalformedCall(run')
            => /\ existing_metadata' = existing_metadata
               /\ stats_file' = stats_file]_vars

C10_Witness ==
    /\ pc = "done"
    /\ MalformedCall(run)
    /\ run.result.error = <<"Invalid action reference format">>
    /\ existing_metadata # EmptyMetadata

\* the errors of the stages of a fresh scan before and after the analysis
EarlyStageErrors ==
    {<<"Failed to download action">>, <<"No analyzable files found">>,
     <<"File validation failed">>, <<"exception">>}

LateStageErrors ==
    {<<"AI analysis failed">>, <<"Failed to save scan results">>, <<"exception">>}

\* no release is marked scanned, or given a report, that the decision step
\* of this call did not find so
NothingRecorded ==
    \A i \in DOMAIN StoredReleases :
        (StoredReleases[i].scanned \/ StoredReleases[i].scan_report # None)
        => /\ HasLabel(run.before, StoredReleases[i].name)
           /\ Release(run.before, StoredReleases[i].name).scanned
           /\ Release(run.before, StoredReleases[i].name).scan_report
                = StoredReleases[i].scan_report

\* C11: a call that started a fresh scan either recorded it and succeeded, or
\* returns success=false with the error of the stage that failed and has
\* marked no release scanned; a call interrupted during the fresh scan has
\* marked no release scanned either.
C11_FailedScanRecordsNothing ==
    /\ (pc = "done" /\ run.downloads >= 1)
       => \/ run.result.success /\ run.records = 1
          \/ /\ ~run.result.success
             /\ run.records = 0
             /\ run.result.error \in
                    (IF run.analyses = 0 THEN EarlyStageErrors ELSE LateStageErrors)
             /\ NothingRecorded
    /\ pc = "cancelled" => (run.records = 0 /\ NothingRecorded)

C11_Witness ==
    /\ pc = "done"
    /\ run.analyses = 1
    /\ ~run.result.success
    /\ run.result.error = <<"Failed to save scan results">>
    /\ ScanPath(run.owner_repo \o <<"@">> \o run.resolved_version) \in files
    /\ HasLabel(StoredReleases, run.resolved_version)
    /\ ~Release(StoredReleases, run.resolved_version).scanned

\* C12: once a call has ended, by returning or by an interrupt, none of the
\* temporary directories download_action made during the call exists.
C12_TempDirsRemoved ==
    pc \in {"done", "cancelled"} => run.temp_dirs = 0

\* C13: scan_actions hands the references of the list to scan_action in list
\* order, each once; a failed reference does not end the loop: when
\* scan_actions returns every reference has been processed, and it returns
\* true exactly when no reference failed.
C13_BatchIsolation ==
    /\ Len(batch.calls) <= Len(batch.actions_list)
    /\ batch.calls = SubSeq(batch.actions_list, 1, Len(batch.calls))
    /\ Len(batch.outcomes) <= Len(batch.calls)
    /\ batch.returned
       => /\ batch.calls = batch.actions_list
          /\ Len(batch.outcomes) = Len(batch.actions_list)
          /\ batch.result = (\A k \in DOMAIN batch.outcomes : batch.outcomes[k])

C13_Witness ==
    /\ batch.returned
    /\ Len(batch.actions_list) >= 2
    /\ batch.calls = batch.actions_list
    /\ ~batch.outcomes[1]
    /\ batch.outcomes[2]
    /\ ~batch.result

\* two release records that differ at most in the order of the SHA list
SameRelease(a, b) ==
    /\ a.name = b.name
    /\ a.latest = b.latest
    /\ Range(a.sha) = Range(b.sha)
    /\ a.scanned = b.scanned
    /\ a.scan_report = b.scan_report
    /\ a.safe = b.safe
    /\ a.published_date = b.published_date

\* C14: merging the same incoming stats a second time leaves the record as
\* the first merge left it: repository block, last_updated and every release
\* (the SHA list as a set).
C14_MergeIdempotent ==
    pc = "merged again"
    => LET once == prev
           twice == existing_metadata[OWNER_REPO]
       IN /\ twice.repository = once.repository
          /\ twice.last_updated = once.last_updated
          /\ Len(twice.releases) = Len(once.releases)
          /\ \A i \in DOMAIN once.releases : SameRelease(once.releases[i], twice.releases[i])

C14_Witness ==
    /\ pc = "merged again"
    /\ run.releases_updated >= 1
    /\ \E i \in DOMAIN run.before :
         /\ run.before[i].scanned
         /\ Len(run.before[i].sha) > 1
         /\ HasLabel(Incoming, run.before[i].name)
         /\ run.before[i].latest # Release(Incoming, run.before[i].name).latest
         /\ Len(Release(StoredReleases, run.before[i].name).sha) > 1
    /\ \E j \in DOMAIN run.before : ~HasLabel(Incoming, run.before[j].name)

\* every release record of the store
AllReleases ==
    UNION {Range(existing_metadata[r].releases) : r \in DOMAIN existing_metadata}

\* C15: in every state of the store reached from the empty store by
\* refreshes, record_scan calls and decisions, the latest SHA of every
\* release is one of the entries of its SHA list.
C15_LatestInShaList ==
    \A release \in AllReleases : release.latest \in Range(release.sha)

C15_Witness ==
    /\ pc = "resolve"
    /\ run.merges = 1
    /\ run.releases_updated >= 1
    /\ \E release \in AllReleases : release.latest = ShaB /\ release.name = V1
    /\ \E release \in AllReleases : release.latest = None

\* C16: in every state of the store reached from the empty store by
\* refreshes, record_scan calls and decisions, a release that is marked
\* scanned has a scan_report that is not null.
C16_ScannedHasReport ==
    \A release \in AllReleases : release.scanned => release.scan_report # None

C16_Witness ==
    /\ pc = "done"
    /\ run.decisions = 1
    /\ run.records = 1
    /\ ~run.scan_info.skip_scan
    /\ \E i \in DOMAIN run.before :
         /\ run.before[i].name = run.resolved_version
         /\ run.before[i].scanned
         /\ run.before[i].scan_report # None
         /\ Release(StoredReleases, run.resolved_version).scanned
         /\ Release(StoredReleases, run.resolved_version).scan_report \in files

\* C17: resolve_version_and_sha returns a pair of a label and a SHA or None
\* for every version, stored record and outcome of the code host calls; when
\* an exception occurs inside, it returns the version as given and None.
C17_ResolveAlwaysReturns ==
    JustResolved
    => /\ run.resolved_version # None
       /\ Len(run.resolved_version) >= 1
       /\ run.commit_sha = None \/ Len(run.commit_sha) >= 1
       /\ run.resolve_raised
            => (run.resolved_version = run.version /\ run.commit_sha = None)

C17_Witness ==
    /\ JustResolved
    /\ run.resolve_raised
    /\ run.version = <<"a", "b">>
    /\ run.resolved_version = run.version
    /\ run.commit_sha = None
    /\ \E i \in DOMAIN StoredReleases : None \in Range(StoredReleases[i].sha)

\* C18: a step that flushes leaves the in-memory store with the change the
\* step made and goes on as it does when the write succeeds, whether or not
\* the write fails; and whenever the stats file gets a new complete content,
\* that content is the whole in-memory store of that moment.
C18_FlushFailureKeepsStore ==
    [][ /\ (run'.flushes = run.flushes + 1 /\ pc = "refresh")
           => /\ pc' = "resolve"
              /\ run.owner_repo \in DOMAIN existing_metadata'
              /\ Labels(run'.repo_stats.releases)
                    \subseteq Labels(existing_metadata'[run.owner_repo].releases)
        /\ (run'.flushes = run.flushes + 1 /\ pc = "save")
           => /\ pc' = "done"
              /\ run'.result.success
              /\ run'.records = run.records + 1
              /\ LET release == Release(existing_metadata'[run.owner_repo].releases,
                                        run.resolved_version)
                 IN release.scanned /\ release.scan_report = run'.result.scan_path
        /\ stats_file' \notin {stats_file, Partial} => stats_file' = existing_metadata'
      ]_vars

C18_Witness ==
    /\ pc = "done"
    /\ run.result.success
    /\ run.records = 1
    /\ run.flushes = 2
    /\ stats_file # existing_metadata
    /\ stats_file # EmptyMetadata
    /\ stats_file # Partial
    /\ Release(StoredReleases, run.resolved_version).scanned

\* C19: when a call has ended, every change it made to the in-memory store
\* has been flushed: the stats file holds the in-memory store.
C19_MutationsFlushed ==
    pc = "done" => stats_file = existing_metadata

\* C20: a call with skip_ai_scan whose decision step reports no reuse returns
\* success=true without a scan artifact or report path; it requests no
\* download, does not invoke the analysis and records no scan: no release is
\* marked scanned or given a report by it.
C20_MetadataOnly ==
    (run.decisions = 1 /\ run.skip_ai_scan /\ ~run.scan_info.skip_scan)
    => /\ pc = "done"
       /\ run.result.success
       /\ run.result.scan_path = None
       /\ run.result.report_path = None
       /\ run.result.error = None
       /\ run.downloads = 0
       /\ run.analyses = 0
       /\ run.records = 0
       /\ NothingRecorded

C20_Witness ==
    /\ pc = "done"
    /\ run.decisions = 1
    /\ run.skip_ai_scan
    /\ ~run.scan_info.skip_scan
    /\ run.result.success
    /\ run.refreshes = 1
    /\ HasLabel(StoredReleases, run.resolved_version)
    /\ ~Release(StoredReleases, run.resolved_version).scanned

\* C21: after a merge, every label that is in the stored record and in the
\* incoming release set with the same latest SHA has the scanned, scan_report
\* and safe the stored record had before the merge.
C21_SameShaKeepsScanState ==
    JustMerged
    => \A i \in DOMAIN Incoming :
         ( /\ HasLabel(run.before, Incoming[i].name)
           /\ Release(run.before, Incoming[i].name).latest = Incoming[i].latest )
         => LET old == Release(run.before, Incoming[i].name)
                release == Release(StoredReleases, Incoming[i].name)
            IN /\ release.scanned = old.scanned
               /\ release.scan_report = old.scan_report
               /\ release.safe = old.safe

C21_Witness ==
    /\ JustMerged
    /\ \E i \in DOMAIN Incoming :
         /\ HasLabel(run.before, Incoming[i].name)
         /\ LET old == Release(run.before, Incoming[i].name)
                release == Release(StoredReleases, Incoming[i].name)
            IN /\ old.latest = Incoming[i].latest
               /\ old.scanned
               /\ old.scan_report # None
               /\ ~old.safe
               /\ release.scanned
               /\ release.scan_report = old.scan_report
               /\ ~release.safe

\* the labels of the releases of rels that match version: the release with
\* that label, and every release with a SHA that equals or starts with it
MatchedLabels(rels, version) ==
    {rels[i].name : i \in {j \in DOMAIN rels :
        \/ rels[j].name = version
        \/ \E k \in DOMAIN rels[j].sha :
              rels[j].sha[k] # None /\ StartsWith(rels[j].sha[k], version)}}

\* C22: _check_existing_scan reports skip_scan=true exactly when a release
\* that matches the version, by its label or by one of its SHAs, is scanned
\* with a report whose file exists; on a match by label the commit SHA it
\* reports is the latest SHA of that release.
C22_ReuseIffValidScan ==
    JustDecided
    => /\ run.scan_info.skip_scan
          <=> \E name \in MatchedLabels(run.before, run.resolved_version) :
                 ReusableScan(Release(run.before, name))
       /\ ( /\ HasLabel(run.before, run.resolved_version)
            /\ run.scan_info.version = run.resolved_version )
          => run.scan_info.commit_sha = Release(run.before, run.resolved_version).latest

\* C23: an alias on a record without a release whose published_date parses
\* resolves to the tag and target commit of the latest release of the code
\* host when that call answers; otherwise to the default branch of the
\* repository info with no SHA when that call answers; otherwise to "main"
\* with no SHA. The repository info is asked for only when the latest
\* release was not found.
C23_AliasFallbackChain ==
    ( /\ JustResolved
      /\ run.version \in Aliases
      /\ \A i \in DOMAIN StoredReleases : StoredReleases[i].published_date \notin IsoDates )
    => /\ run.repo_info.ok => ~run.latest_release.ok
       /\ IF run.latest_release.ok
          THEN /\ run.resolved_version = run.latest_release.tag_name
               /\ run.commit_sha = run.latest_release.target_commitish
          ELSE IF run.repo_info.ok
          THEN /\ run.resolved_version = run.repo_info.default_branch
               /\ run.commit_sha = None
          ELSE /\ run.resolved_version = MAIN
               /\ run.commit_sha = None

C23_Witness ==
    /\ JustResolved
    /\ run.version = LATEST
    /\ StoredReleases # <<>>
    /\ \A i \in DOMAIN StoredReleases : StoredReleases[i].published_date \notin IsoDates
    /\ run.latest_release.ok
    /\ run.resolved_version = V2
    /\ run.commit_sha = ShaB

\* C24: a version that is no alias and is a release label of the record
\* resolves to that label with the latest SHA of that release, whatever SHAs
\* the other releases hold; a version that is neither a label nor equal to
\* or a prefix of a recorded SHA resolves to itself with no SHA.
C24_LabelBeforeSha ==
    (JustResolved /\ run.version \notin Aliases)
    => /\ HasLabel(StoredReleases, run.version)
          => /\ run.resolved_version = run.version
             /\ run.commit_sha = Release(StoredReleases, run.version).latest
       /\ MatchedLabels(StoredReleases, run.version) = {}
          => /\ run.resolved_version = run.version
             /\ run.commit_sha = None

C24_Witness ==
    /\ JustResolved
    /\ run.version = <<"a", "b">>
    /\ Len(StoredReleases) = 2
    /\ StoredReleases[1].name = V1
    /\ StoredReleases[1].sha = <<ShaA>>
    /\ StoredReleases[2].name = run.version
    /\ StoredReleases[2].latest = ShaB
    /\ run.resolved_version = run.version
    /\ run.commit_sha = ShaB

\* C25: run ordering. In a run with a well-formed reference the refresh is
\* requested whatever the age of the record, and when it returned statistics
\* they are in the store before the version is resolved; the version is
\* resolved before the reuse decision, and a download or an analysis happens
\* only after a decision that reported no reuse.
C25_RunOrdering ==
    /\ pc \in {"resolve", "decide", "download", "extract", "analyze", "save", "cancelled"}
            => run.refreshes = 1
    /\ (pc = "done" /\ run.action_ref # None /\ ~MalformedCall(run)) => run.refreshes = 1
    /\ run.resolutions >= 1 => run.refreshes = 1
    /\ run.decisions >= 1 => run.resolutions = 1
    /\ (run.downloads >= 1 \/ run.analyses >= 1)
            => /\ run.decisions = 1
               /\ ~run.scan_info.skip_scan
    /\ run.analyses >= 1 => run.downloads = 1
    /\ (pc = "resolve" /\ run.repo_stats.ok)
            => /\ run.owner_repo \in DOMAIN existing_metadata
               /\ \A i \in DOMAIN run.repo_stats.releases :
                    LET incoming == run.repo_stats.releases[i]
                    IN /\ HasLabel(StoredReleases, incoming.name)
                       /\ Release(StoredReleases, incoming.name).latest = incoming.latest

\* a record refreshed by the run before is refreshed again by this run
C25_Witness ==
    /\ pc = "resolve"
    /\ runs = 2
    /\ run.refreshes = 1
    /\ run.merges = 1
    /\ run.repo_stats.ok
    /\ existing_metadata[run.owner_repo].last_updated = runs
    /\ \E i \in DOMAIN run.before : run.before[i].published_date # NA

\* the record of a repository in a store, NoRepository when it has none
RecordOf(metadata, owner_repo) ==
    IF owner_repo \in DOMAIN metadata THEN metadata[owner_repo] ELSE NoRepository

\* the stores that the refresh of the repository of one and then the refresh
\* of the repository of two can leave
RefreshedInOrder(metadata, one, two) ==
    UNION {RefreshStore(between, two.owner_repo, two.repo_stats) :
            between \in RefreshStore(metadata, one.owner_repo, one.repo_stats)}

\* C26: a refresh of one repository leaves the record of every other
\* repository as it was, and the refreshes of two different repositories give
\* the same stores in either order.
C26_RepositoriesIndependent ==
    /\ pc \in {"refreshed one", "refreshed both"}
            => \A other \in Repositories \ {run.first.owner_repo} :
                    RecordOf(run.between, other) = RecordOf(run.before, other)
    /\ pc = "refreshed both"
            => /\ \A other \in Repositories \ {run.second.owner_repo} :
                    RecordOf(existing_metadata, other) = RecordOf(run.between, other)
               /\ existing_metadata \in RefreshedInOrder(run.before, run.second, run.first)
               /\ RefreshedInOrder(run.before, run.first, run.second)
                    = RefreshedInOrder(run.before, run.second, run.first)

\* a first insert of one repository and a merge with drift of the other
C26_Witness ==
    /\ pc = "refreshed both"
    /\ run.first.repo_stats.ok
    /\ run.second.repo_stats.ok
    /\ run.first.owner_repo \notin DOMAIN run.before
    /\ run.second.owner_repo \in DOMAIN run.before
    /\ \E i \in DOMAIN run.before[run.second.owner_repo].releases :
         LET old == run.before[run.second.owner_repo].releases[i]
         IN /\ old.scanned
            /\ HasLabel(existing_metadata[run.second.owner_repo].releases, old.name)
            /\ ~Release(existing_metadata[run.second.owner_repo].releases, old.name).scanned
    /\ existing_metadata[run.first.owner_repo].releases # <<>>

\* C27: when the refresh of a run reports, for the label the version resolves
\* to, another latest commit than the one stored with the scan of that label,
\* the run does not return the existing scan: it scans afresh or ends without
\* a report.
C27_NoStaleReuseAfterDrift ==
    (pc = "done" /\ run.resolved_version \in run.drifted)
        => /\ run.result.scan_type # <<"existing">>
           /\ ~run.scan_info.skip_scan
           /\ \/ run.analyses = 1
              \/ run.result.report_path = None

\* the tag scanned by the run before has moved, and this run scans it again
C27_Witness ==
    /\ pc = "done"
    /\ run.resolved_version \in run.drifted
    /\ prev.fresh
    /\ ~run.scan_info.skip_scan
    /\ run.analyses = 1
    /\ run.records = 1
    /\ run.result.success

\* C28: after _check_existing_scan has returned skip_scan=false, every
\* release that matches the version by its label or by one of its SHAs has
\* scanned=false in the store.
C28_MissLeavesNoneScanned ==
    (JustDecided /\ ~run.scan_info.skip_scan)
        => \A name \in MatchedLabels(run.before, run.resolved_version) :
                ~Release(StoredReleases, name).scanned

\* the refresh of the current call got no statistics and the call has not
\* recorded a scan since
RefreshFailed == run.refreshes = 1 /\ run.flushes = 0 /\ run.records = 0

\* C29: a refresh for which get_repository_stats returns nothing leaves the
\* in-memory store and the stats file as they were and flushes nothing; the
\* call goes on to resolve the version and to decide on reuse with the record
\* that was stored before.
C29_FailedRefreshChangesNothing ==
    [][ /\ (pc = "refresh" /\ pc' = "resolve" /\ ~run'.repo_stats.ok)
           => /\ existing_metadata' = existing_metadata
              /\ stats_file' = stats_file
              /\ run'.flushes = run.flushes
              /\ run'.merges = run.merges
              /\ run'.refreshes = 1
              /\ run'.result = run.result
        /\ (pc = "resolve" /\ RefreshFailed /\ run' # run)
           => /\ pc' = "decide"
              /\ run'.resolutions = 1
              /\ existing_metadata' = existing_metadata
              /\ HasLabel(StoredReleases, run.version)
                    => /\ run'.resolved_version = run.version
                       /\ run'.commit_sha = Release(StoredReleases, run.version).latest
        /\ (pc = "decide" /\ RefreshFailed /\ run' # run)
           => /\ run'.decisions = 1
              /\ run'.scan_info =
                    check_existing_scan(existing_metadata, run.owner_repo,
                                        run.resolved_version, files).result
      ]_vars

\* the refresh fails for a repository whose record has a scanned release, and
\* the call reuses that scan
C29_Witness ==
    /\ pc = "done"
    /\ RefreshFailed
    /\ run.had_record
    /\ run.decisions = 1
    /\ run.scan_info.skip_scan
    /\ run.result.scan_type = <<"existing">>
    /\ prev.fresh

\* the releases of rels in the opposite insertion order
Reversed(rels) == [i \in DOMAIN rels |-> rels[Len(rels) + 1 - i]]

\* C30: resolve_version_and_sha returns the same label and SHA for a record
\* and for the record with the same releases inserted in the opposite order.
C30_ResolveIgnoresOrder ==
    JustResolved
    => LET reordered == [existing_metadata EXCEPT
                            ![run.owner_repo].releases = Reversed(StoredReleases)]
           resolved == resolve_version_and_sha(reordered, run.owner_repo, run.version,
                                               run.latest_release, run.repo_info)
       IN /\ resolved.version = run.resolved_version
          /\ resolved.sha = run.commit_sha

============================================================================
